---- MODULE Spec2Model ----
(***************************************************************************)
(* A model of the Eleventy configuration of the site: the filters          *)
(* readableDate, random and getAspectClass, the image shortcode and the    *)
(* two collection builders (src/.eleventy.js and the fuller configuration  *)
(* listed in src/README.md, lines 80-172).                                 *)
(***************************************************************************)
EXTENDS Integers, Sequences, FiniteSets, TLC

VARIABLES
  inv,          \* getAspectClass invocations: slot -> invocation record
  store,        \* the content store: the input files, in enumeration order
  listing,      \* collection name -> the array the last getFilteredByGlob call returned
  collections,  \* collection name -> the array the builder returned
  prevBuild,    \* collection name -> what the previous build of it returned
  builds,       \* collection name -> builds since the content store last changed
  tz,           \* the process-local timezone, as an offset from UTC in minutes
  dateObj,      \* the JS Date handed to readableDate
  formatted,    \* the strings readableDate has returned for dateObj, with the tz of each call
  array,        \* the array the template holds and hands to the random filter
  handed,       \* that array as it was when the filter was last called
  draw,         \* the value of Math.random() of the last call, as draw / DrawScale
  picked,       \* what the random filter returned last
  sc,           \* image shortcode invocations: slot -> invocation record
  outputDir,    \* the image files written under the output tree
  delivered,    \* image path -> the callback calls getAspectClass has made for it so far
  picks,        \* the values the random filter has returned for the array held
  phase,        \* how far the build is: "start", "configured", "copied"
  mode,         \* the build mode: "build" or "serve"
  registry,     \* what the configuration function has registered with eleventyConfig
  returned,     \* what the configuration function returned
  assets,       \* the files of the source tree that are not templates, each a path and a content
  site          \* the files passthrough copy has put in the output tree, each a path and a content

vars == <<inv, store, listing, collections, prevBuild, builds,
          tz, dateObj, formatted, array, handed, draw, picked,
          sc, outputDir, delivered, picks,
          phase, mode, registry, returned, assets, site>>

aspectVars == <<inv>>
collVars   == <<store, listing, collections, prevBuild, builds>>
dateVars   == <<tz, dateObj, formatted>>
randomVars == <<array, handed, draw, picked>>
shortVars  == <<sc>>
histVars   == <<delivered, picks>>
buildVars  == <<phase, mode, registry, returned, assets, site>>

(***************************************************************************)
(* Bounds of the model.                                                    *)
(***************************************************************************)
MaxDim == 14         \* image widths and heights are 1..MaxDim pixels
NumSlots == 2        \* getAspectClass invocations the templates can hold at once
MaxFiles == 3        \* input files in the content store
MaxDate == 2         \* content dates are the days 1..MaxDate
MaxBuilds == 2       \* builds of one collection over an unchanged content store
DayRadius == 1       \* the dates tried lie within DayRadius days of an anchor day
MaxLen == 3          \* length of the array handed to the random filter
DrawScale == 8       \* Math.random() takes the values 0/DrawScale .. (DrawScale-1)/DrawScale
MaxContent == 2      \* the contents a file of the source tree may have

(***************************************************************************)
(* getAspectClass (README.md 122-149).                                     *)
(*                                                                         *)
(* A width or height read from the metadata is a JS value: a number or     *)
(* undefined.  The ratio of two numbers w / h is kept as the pair (w, h);  *)
(* for the pixel counts of the model (far below 2^50) the IEEE-754         *)
(* quotient compares with the literals 0.7, 1.3 and 1.8 exactly as the     *)
(* rational w/h compares with 7/10, 13/10 and 18/10, because division and  *)
(* the literals are both correctly rounded.  A ratio with an undefined     *)
(* operand is NaN, and every comparison with NaN is false.                 *)
(***************************************************************************)
Num(n)    == [t |-> "number", n |-> n]
Undefined == [t |-> "undefined", n |-> 0]

Dims   == {Num(n) : n \in 1..MaxDim} \cup {Undefined}
Images == [width : Dims, height : Dims]

\* What the awaited Image(imagePath, {widths: [1], formats: ["jpeg"], dryRun: true})
\* can settle to: a rejection, or metadata whose jpeg list is missing, empty or
\* holds one entry.
Rejected == [settled |-> "rejected", hasJpeg |-> FALSE, jpeg |-> <<>>]
Resolved(hasJpeg, jpeg) == [settled |-> "resolved", hasJpeg |-> hasJpeg, jpeg |-> jpeg]
LibOutcomes ==
  {Rejected, Resolved(FALSE, <<>>), Resolved(TRUE, <<>>)}
    \cup {Resolved(TRUE, <<img>>) : img \in Images}

\* The ratio written img.width - img.height.
ratioDifference(img) ==
  IF img.width.t = "number" /\ img.height.t = "number"
    THEN [nan |-> FALSE, num |-> img.width.n - img.height.n, den |-> 1]
    ELSE [nan |-> TRUE, num |-> 0, den |-> 1]

\* const ratio = img.width / img.height;
ratio(img) ==
  IF img.width.t = "number" /\ img.height.t = "number"
    THEN [nan |-> FALSE, num |-> img.width.n, den |-> img.height.n]
    ELSE [nan |-> TRUE, num |-> 0, den |-> 1]

\* r < p/q and r >= p/q for a ratio r and the decimal literal p/q (q > 0)
Less(r, p, q)    == ~r.nan /\ r.num * q < p * r.den
AtLeast(r, p, q) == ~r.nan /\ r.num * q >= p * r.den
AtMost(r, p, q)  == ~r.nan /\ r.num * q <= p * r.den
Greater(r, p, q) == ~r.nan /\ r.num * q > p * r.den

\* The conditions of the if / else-if chain, as written.
IsPortraitCond(r)  == Less(r, 7, 10)
\* the square condition written ratio > 0.7 && ratio < 1.3
IsSquareCondStrict(r) == Greater(r, 7, 10) /\ Less(r, 13, 10)
IsSquareCond(r)    == AtLeast(r, 7, 10) /\ Less(r, 13, 10)
IsLandscapeCond(r) == AtLeast(r, 13, 10) /\ Less(r, 18, 10)
IsPanoramaCond(r)  == AtLeast(r, 18, 10)

\* cssClass with the classes of the second and third branch exchanged.
cssClassExchanged(r) ==
  IF IsPortraitCond(r) THEN "aspect-portrait"
  ELSE IF IsSquareCond(r) THEN "aspect-landscape"
  ELSE IF IsLandscapeCond(r) THEN "aspect-square"
  ELSE IF IsPanoramaCond(r) THEN "aspect-panorama"
  ELSE "aspect-landscape"

\* cssClass with the first comparison written ratio <= 0.7
cssClassBoundary(r) ==
  IF AtMost(r, 7, 10) THEN "aspect-portrait"
  ELSE IF IsSquareCond(r) THEN "aspect-square"
  ELSE IF IsLandscapeCond(r) THEN "aspect-landscape"
  ELSE IF IsPanoramaCond(r) THEN "aspect-panorama"
  ELSE "aspect-landscape"

\* let cssClass = "aspect-landscape"; if ... else if ...
cssClass(r) ==
  IF IsPortraitCond(r) THEN "aspect-portrait"
  ELSE IF IsSquareCond(r) THEN "aspect-square"
  ELSE IF IsLandscapeCond(r) THEN "aspect-landscape"
  ELSE IF IsPanoramaCond(r) THEN "aspect-panorama"
  ELSE "aspect-landscape"

\* One call of the callback: callback(err, val).
CallbackCall(err, val) == [err |-> err, val |-> val]

\* Whether the try block reaches callback(null, cssClass): the await did not
\* reject, and metadata.jpeg[0].width did not raise a TypeError.
TryReachesCallback(lib) ==
  lib.settled = "resolved" /\ lib.hasJpeg /\ Len(lib.jpeg) > 0

\* The body with a catch block that reports the error: callback(e).
getAspectClassBodyReport(lib, throwsOn) ==
  LET tryCalls == IF TryReachesCallback(lib)
                    THEN <<CallbackCall("null", cssClass(ratio(lib.jpeg[1])))>>
                    ELSE <<>>
      tryThrew == ~TryReachesCallback(lib) \/ 1 \in throwsOn
      catchCalls == IF tryThrew
                      THEN <<CallbackCall("ImageError", "undefined")>>
                      ELSE <<>>
      calls == tryCalls \o catchCalls
      catchThrew == tryThrew /\ Len(calls) \in throwsOn
  IN  [calls |-> calls,
       promise |-> IF catchThrew THEN "rejected" ELSE "fulfilled",
       error |-> IF catchThrew THEN "CallbackError" ELSE "none"]

\* The body of the async filter function after the await, run to its end.
\* throwsOn is the set of call ordinals at which the callback itself throws.
\* The result is the calls made, in order, and how the function's promise ends.
getAspectClassBody(lib, throwsOn) ==
  LET tryCalls == IF TryReachesCallback(lib)
                    THEN <<CallbackCall("null", cssClass(ratio(lib.jpeg[1])))>>
                    ELSE <<>>
      tryThrew == ~TryReachesCallback(lib) \/ 1 \in throwsOn
      catchCalls == IF tryThrew
                      THEN <<CallbackCall("null", "aspect-landscape")>>
                      ELSE <<>>
      calls == tryCalls \o catchCalls
      catchThrew == tryThrew /\ Len(calls) \in throwsOn
  IN  [calls |-> calls,
       promise |-> IF catchThrew THEN "rejected" ELSE "fulfilled",
       error |-> IF catchThrew THEN "CallbackError" ELSE "none"]

(***************************************************************************)
(* The image library as both callers use it (README.md 124-129,            *)
(* .eleventy.js 5-10): Image(src, options) reads the file at src and       *)
(* settles to a rejection when there is none to read, else to metadata     *)
(* that lists, for each format asked for, one entry for each rendition     *)
(* width.  A width above the width of the file is not rendered (no         *)
(* upscaling); when no width is left, the file's own width is taken.  The  *)
(* height of a rendition of width w of a W x H file is floor(w * H / W).   *)
(* Unless options.dryRun is set, each rendition is written to a file under *)
(* options.outputDir.                                                      *)
(***************************************************************************)
UnknownFile == [kind |-> "unknown", width |-> 0, height |-> 0]
MissingFile == [kind |-> "missing", width |-> 0, height |-> 0]
ImageFile(w, h) == [kind |-> "image", width |-> w, height |-> h]

\* The options of getAspectClass without dryRun: the rendition is written.
AspectOptionsWrite ==
  [widths |-> <<1>>, formats |-> <<"jpeg">>, outputDir |-> <<".", "_site", "img">>,
   urlPath |-> <<>>, dryRun |-> FALSE]

\* The options of the call in getAspectClass and of the call in imageShortcode.
\* A path is the sequence of its segments.
AspectOptions ==
  [widths |-> <<1>>, formats |-> <<"jpeg">>,
   outputDir |-> <<".", "_site", "img">>, urlPath |-> <<>>, dryRun |-> TRUE]
\* The options of imageShortcode with an output directory beside _site.
ShortcodeOptionsBeside ==
  [widths |-> <<600, 1200, 1800>>, formats |-> <<"webp", "jpeg">>,
   outputDir |-> <<".", "img">>, urlPath |-> <<"img">>, dryRun |-> FALSE]

ShortcodeOptions ==
  [widths |-> <<600, 1200, 1800>>, formats |-> <<"webp", "jpeg">>,
   outputDir |-> <<".", "_site", "img">>, urlPath |-> <<"img">>, dryRun |-> FALSE]

\* A relative path without its "." segments.
NormalizePath(p) == SelectSeq(p, LAMBDA seg : seg # ".")

ValidWidths(file, widths) ==
  LET fitting == SelectSeq(widths, LAMBDA w : w <= file.width)
  IN  IF Len(fitting) = 0 THEN <<file.width>> ELSE fitting

RenditionHeight(file, w) == (w * file.height) \div file.width

\* The metadata entry of one rendition.
Stat(src, file, format, w, options) ==
  [format |-> format, width |-> w, height |-> RenditionHeight(file, w),
   of |-> src, dir |-> NormalizePath(options.outputDir)]

SeqToSet(s) == {s[k] : k \in 1..Len(s)}

\* What Image(src, options) settles to, file being what lies at src.
Image(src, file, options) ==
  IF file.kind # "image"
    THEN [settled |-> "rejected", error |-> "ImageError", stats |-> <<>>]
    ELSE LET ws == ValidWidths(file, options.widths)
         IN  [settled |-> "resolved", error |-> "none",
              stats |-> [f \in 1..Len(options.formats) |->
                          [k \in 1..Len(ws) |->
                            Stat(src, file, options.formats[f], ws[k], options)]]]

\* The files that call writes.
ImageWrites(src, file, options) ==
  IF options.dryRun \/ file.kind # "image"
    THEN {}
    ELSE LET r == Image(src, file, options)
         IN  UNION {SeqToSet(r.stats[f]) : f \in 1..Len(r.stats)}

\* metadata.jpeg of a settled call, as getAspectClass reads it.
JpegOf(r) ==
  LET fs == {f \in 1..Len(r.stats) : Len(r.stats[f]) > 0 /\ r.stats[f][1].format = "jpeg"}
  IN  IF fs = {} THEN <<>>
      ELSE LET list == r.stats[CHOOSE f \in fs : TRUE]
           IN  [k \in 1..Len(list) |->
                 [width |-> Num(list[k].width), height |-> Num(list[k].height)]]

\* The settled call in the shape getAspectClass reads.
AspectMetadata(r) ==
  IF r.settled = "rejected" THEN Rejected
  ELSE Resolved(JpegOf(r) # <<>>, JpegOf(r))

(***************************************************************************)
(* The invocations of getAspectClass.  A template calls the filter with an *)
(* image path and a callback; the filter awaits the image library, and     *)
(* when the library settles the rest of the function runs to its end.      *)
(***************************************************************************)
Slots == 1..NumSlots
Paths == {"/photos/a.jpg", "/photos/b.jpg"}
ThrowSets == SUBSET {1, 2}

Pending == [settled |-> "pending", hasJpeg |-> FALSE, jpeg |-> <<>>]
Idle == [pc |-> "idle", imagePath |-> "", file |-> UnknownFile, lib |-> Pending,
         throwsOn |-> {}, calls |-> <<>>, promise |-> "none", error |-> "none"]

\* eleventyConfig.addNunjucksAsyncFilter("getAspectClass", async function (imagePath, callback)
\* up to the await: the call of Image(...) is issued and the function suspends.
\* file is what lies at imagePath (UnknownFile when the model leaves it open).
getAspectClass(i, imagePath, file) ==
  /\ inv[i].pc = "idle"
  /\ inv' = [inv EXCEPT ![i] = [Idle EXCEPT !.pc = "awaiting",
                                            !.imagePath = imagePath,
                                            !.file = file,
                                            !.promise = "pending"]]
  /\ UNCHANGED outputDir

\* The awaited library call settles to lib and the function resumes and ends.
ImageSettles(i, lib, throwsOn) ==
  /\ inv[i].pc = "awaiting"
  /\ LET r == getAspectClassBody(lib, throwsOn)
     IN  inv' = [inv EXCEPT ![i] = [pc |-> "done",
                                    imagePath |-> inv[i].imagePath,
                                    file |-> inv[i].file,
                                    lib |-> lib,
                                    throwsOn |-> throwsOn,
                                    calls |-> r.calls,
                                    promise |-> r.promise,
                                    error |-> r.error]]
  /\ outputDir' = outputDir \cup ImageWrites(inv[i].imagePath, inv[i].file, AspectOptions)

\* The template engine has taken the result; the slot is free again.
Return(i) ==
  /\ inv[i].pc = "done"
  /\ inv' = [inv EXCEPT ![i] = Idle]
  /\ UNCHANGED outputDir

\* Rendering one item at a time: a call starts only when no other is in flight.
NoneInFlight ==
  \A j \in Slots : inv[j].pc = "idle" /\ sc[j].pc = "idle"

\* What every step of getAspectClass leaves alone.
aspectFrame == <<collVars, dateVars, randomVars, shortVars, histVars, buildVars>>

\* The library left open: the awaited call may settle to any outcome.
AspectCall ==
  \E i \in Slots, p \in Paths :
    NoneInFlight /\ getAspectClass(i, p, UnknownFile) /\ UNCHANGED aspectFrame
AspectSettle ==
  \E i \in Slots, lib \in LibOutcomes, t \in ThrowSets :
    ImageSettles(i, lib, t) /\ UNCHANGED aspectFrame
AspectReturn ==
  \E i \in Slots : Return(i) /\ UNCHANGED aspectFrame

\* The library as modelled: the awaited call settles to what Image gives for
\* the file at the path.
SourceFiles == {ImageFile(w, h) : w, h \in 1..MaxDim} \cup {MissingFile}
\* The path kept in a variable of the module that every invocation overwrites:
\* the library is asked for the image of whichever invocation wrote it last.
SettledShared(i) ==
  LET others == {j \in Slots \ {i} : inv[j].pc = "awaiting"}
      k == IF others = {} THEN i ELSE CHOOSE j \in others : TRUE
  IN  AspectMetadata(Image(inv[k].imagePath, inv[k].file, AspectOptions))

Settled(i) == AspectMetadata(Image(inv[i].imagePath, inv[i].file, AspectOptions))

SourceCall ==
  \E i \in Slots, p \in Paths, f \in SourceFiles :
    NoneInFlight /\ getAspectClass(i, p, f) /\ UNCHANGED aspectFrame
SourceSettle ==
  \E i \in Slots, t \in ThrowSets :
    /\ inv[i].pc = "awaiting"
    /\ ImageSettles(i, Settled(i), t)
    /\ UNCHANGED aspectFrame

(***************************************************************************)
(* The image shortcode (.eleventy.js 4-20).                                *)
(*                                                                         *)
(* A template calls the shortcode with src, alt and, optionally, sizes.    *)
(* A string argument is a JS value: a string, or undefined when the        *)
(* template passes none.                                                   *)
(***************************************************************************)
Str(s)  == [t |-> "string", s |-> s]
NoArg   == [t |-> "undefined", s |-> ""]

Alts  == {Str("a photo"), Str(""), NoArg}
Sizes == {Str("50vw"), NoArg}
ShortFiles == {MissingFile, ImageFile(400, 300), ImageFile(1500, 1000), ImageFile(3000, 2000)}

\* The parameter sizes without its default.
DefaultSizesNone(sizes) == sizes

\* sizes = "100vw": the default of the parameter when the argument is undefined
DefaultSizes(sizes) == IF sizes.t = "undefined" THEN Str("100vw") ELSE sizes

\* const imageAttributes = { alt, sizes, loading: "lazy", decoding: "async" };
imageAttributes(alt, sizes) ==
  [alt |-> alt, sizes |-> sizes, loading |-> "lazy", decoding |-> "async"]

\* Image.generateHTML(metadata, attributes): the markup for the renditions of
\* metadata with the attributes; it throws when attributes.alt is undefined.
generateHTML(metadata, attributes) ==
  IF attributes.alt.t = "undefined"
    THEN [threw |-> TRUE, html |-> <<>>]
    ELSE [threw |-> FALSE,
          html |-> <<[tag |-> "picture", sources |-> metadata.stats, img |-> attributes]>>]

NoCall == [src |-> "", options |-> AspectOptions]
ScIdle == [pc |-> "idle", src |-> "", alt |-> NoArg, sizes |-> NoArg, file |-> UnknownFile,
           libCalls |-> <<>>, metadata |-> <<>>, htmlCalls |-> <<>>,
           promise |-> "none", value |-> <<>>, error |-> "none"]

\* The body with the library call inside a try whose catch returns no markup.
imageShortcodeBodyCaught(src, alt, sizes, r) ==
  IF r.settled = "rejected"
    THEN [htmlCalls |-> <<>>, promise |-> "fulfilled", value |-> <<>>, error |-> "none"]
    ELSE LET attrs == imageAttributes(alt, DefaultSizes(sizes))
             h     == generateHTML(r, attrs)
         IN  [htmlCalls |-> <<[metadata |-> r, attributes |-> attrs]>>,
              promise |-> IF h.threw THEN "rejected" ELSE "fulfilled",
              value |-> h.html,
              error |-> IF h.threw THEN "HtmlError" ELSE "none"]

\* The body of imageShortcode after the await, run to its end, r being what
\* the awaited call settled to: the calls of generateHTML made and how the
\* function's promise ends.
imageShortcodeBody(src, alt, sizes, r) ==
  IF r.settled = "rejected"
    THEN [htmlCalls |-> <<>>, promise |-> "rejected", value |-> <<>>, error |-> r.error]
    ELSE LET attrs == imageAttributes(alt, DefaultSizes(sizes))
             h     == generateHTML(r, attrs)
         IN  [htmlCalls |-> <<[metadata |-> r, attributes |-> attrs]>>,
              promise |-> IF h.threw THEN "rejected" ELSE "fulfilled",
              value |-> h.html,
              error |-> IF h.threw THEN "HtmlError" ELSE "none"]

\* async function imageShortcode(src, alt, sizes = "100vw") up to the await:
\* Image(src, {...}) is called and the function suspends.
imageShortcode(i, src, alt, sizes, file) ==
  /\ sc[i].pc = "idle"
  /\ sc' = [sc EXCEPT ![i] = [ScIdle EXCEPT !.pc = "awaiting",
                                            !.src = src, !.alt = alt, !.sizes = sizes,
                                            !.file = file,
                                            !.libCalls = <<[src |-> src,
                                                            options |-> ShortcodeOptions]>>,
                                            !.promise = "pending"]]
  /\ UNCHANGED outputDir

\* The awaited call settles, having written its renditions, and the function
\* resumes and ends.
ShortcodeSettles(i) ==
  /\ sc[i].pc = "awaiting"
  /\ LET call == sc[i].libCalls[1]
         r    == Image(call.src, sc[i].file, call.options)
         b    == imageShortcodeBody(sc[i].src, sc[i].alt, sc[i].sizes, r)
     IN  /\ sc' = [sc EXCEPT ![i] = [sc[i] EXCEPT !.pc = "done",
                                                  !.metadata = <<r>>,
                                                  !.htmlCalls = b.htmlCalls,
                                                  !.promise = b.promise,
                                                  !.value = b.value,
                                                  !.error = b.error]]
         /\ outputDir' = outputDir \cup ImageWrites(call.src, sc[i].file, call.options)

\* The template engine has taken the markup or the error; the slot is free again.
ShortcodeReturn(i) ==
  /\ sc[i].pc = "done"
  /\ sc' = [sc EXCEPT ![i] = ScIdle]
  /\ UNCHANGED outputDir

shortFrame == <<aspectVars, collVars, dateVars, randomVars, histVars, buildVars>>

ImageCall ==
  \E i \in Slots, p \in Paths, alt \in Alts, sizes \in Sizes, f \in ShortFiles :
    NoneInFlight /\ imageShortcode(i, p, alt, sizes, f) /\ UNCHANGED shortFrame
ImageSettle ==
  \E i \in Slots : ShortcodeSettles(i) /\ UNCHANGED shortFrame
ImageReturn ==
  \E i \in Slots : ShortcodeReturn(i) /\ UNCHANGED shortFrame

(***************************************************************************)
(* The content store and the two collections (.eleventy.js 36-42).         *)
(*                                                                         *)
(* An input file is src/<dir>/<date>-<slug>.<ext>.  store lists the input  *)
(* files in the order in which the collection API enumerates them.         *)
(***************************************************************************)
Collections == {"posts", "photos"}
Slugs == {"a", "b"}

File(dir, date, slug, ext) == [dir |-> dir, date |-> date, slug |-> slug, ext |-> ext]
ContentFiles ==
  {File(d, t, s, "md") : d \in {"src/posts", "src/photos"}, t \in 1..MaxDate, s \in Slugs}
OtherFiles == {File("src", 1, "a", "md"), File("src/posts", 1, "a", "njk")}
Files == ContentFiles \cup OtherFiles

\* The glob each builder passes: "src/posts/*.md" and "src/photos/*.md".
\* The * matches within one directory level, so the glob is a directory and an extension.
\* both builders written with the posts glob
GlobOfPosts(c) == [dir |-> "src/posts", ext |-> "md"]

GlobOf(c) ==
  IF c = "posts" THEN [dir |-> "src/posts", ext |-> "md"]
                 ELSE [dir |-> "src/photos", ext |-> "md"]

Matches(f, glob) == f.dir = glob.dir /\ f.ext = glob.ext

\* collectionApi.getFilteredByGlob(glob): a new array of the matching items,
\* in enumeration order.
getFilteredByGlob(files, glob) == SelectSeq(files, LAMBDA f : Matches(f, glob))

\* The position a[k] takes when a is sorted by date, newest first (a stable sort).
RankByDate(a, k) ==
  Cardinality({j \in 1..Len(a) : a[j].date > a[k].date \/ (a[j].date = a[k].date /\ j <= k)})

\* a sort by date, newest first, in the place of the reversal
sortByDate(a) == [n \in 1..Len(a) |-> a[CHOOSE k \in 1..Len(a) : RankByDate(a, k) = n]]

\* no reversal: the array as enumerated
notReversed(a) == a

\* Array.prototype.reverse: reverses the array in place and returns that same array.
reverse(a) == [k \in 1..Len(a) |-> a[Len(a) + 1 - k]]

\* a builder that reverses a copy: [...getFilteredByGlob(glob)].reverse()
CollectionBuilderCopy(c, files) ==
  LET enumerated == getFilteredByGlob(files, GlobOf(c))
  IN  [listing |-> enumerated, returned |-> reverse(enumerated)]

\* a builder whose enumeration call hands out one cached array on every call
CollectionBuilderCached(c, files) ==
  LET enumerated == IF builds[c] > 0 THEN listing[c]
                                     ELSE getFilteredByGlob(files, GlobOf(c))
      reversed   == reverse(enumerated)
  IN  [listing |-> reversed, returned |-> reversed]

\* function(collectionApi) { return collectionApi.getFilteredByGlob(glob).reverse(); }
\* The result names the array the enumeration call returned, as the builder
\* leaves it, and the array the builder returns (one and the same array).
CollectionBuilder(c, files) ==
  LET enumerated == getFilteredByGlob(files, GlobOf(c))
      reversed   == reverse(enumerated)
  IN  [listing |-> reversed, returned |-> reversed]

NotBuilt == [c \in Collections |-> <<>>]
NoBuilds == [c \in Collections |-> 0]

\* A build calls the builder of collection c.
BuildCollection(c) ==
  /\ builds[c] < MaxBuilds
  /\ LET r == CollectionBuilder(c, store)
     IN  /\ listing' = [listing EXCEPT ![c] = r.listing]
         /\ collections' = [collections EXCEPT ![c] = r.returned]
  /\ prevBuild' = [prevBuild EXCEPT ![c] = collections[c]]
  /\ builds' = [builds EXCEPT ![c] = builds[c] + 1]
  /\ UNCHANGED store

InsertAt(s, k, x) == SubSeq(s, 1, k) \o <<x>> \o SubSeq(s, k + 1, Len(s))
RemoveAt(s, k) == SubSeq(s, 1, k - 1) \o SubSeq(s, k + 1, Len(s))
InStore(f) == \E k \in 1..Len(store) : store[k] = f

\* The author adds a file; the enumeration may list it anywhere.  Collections
\* are not persisted: what earlier builds returned is gone.
AddFile(f, k) ==
  /\ Len(store) < MaxFiles
  /\ ~InStore(f)
  /\ store' = InsertAt(store, k, f)
  /\ listing' = NotBuilt /\ collections' = NotBuilt
  /\ prevBuild' = NotBuilt /\ builds' = NoBuilds

\* The author deletes a file.
DeleteFile(k) ==
  /\ store' = RemoveAt(store, k)
  /\ listing' = NotBuilt /\ collections' = NotBuilt
  /\ prevBuild' = NotBuilt /\ builds' = NoBuilds

CollBuild ==
  \E c \in Collections :
    BuildCollection(c) /\ UNCHANGED <<aspectVars, dateVars, randomVars, shortVars, outputDir, histVars, buildVars>>
CollAdd ==
  \E f \in Files, k \in 0..Len(store) :
    AddFile(f, k) /\ UNCHANGED <<aspectVars, dateVars, randomVars, shortVars, outputDir, histVars, buildVars>>
CollDelete ==
  \E k \in 1..Len(store) :
    DeleteFile(k) /\ UNCHANGED <<aspectVars, dateVars, randomVars, shortVars, outputDir, histVars, buildVars>>

(***************************************************************************)
(* readableDate (.eleventy.js 28-30).                                      *)
(*                                                                         *)
(* A JS Date is an instant, or invalid (its time value is NaN).  An        *)
(* instant is kept as its day since 1970-01-01 UTC and its minute within   *)
(* that day.  A string is the sequence of its characters.                  *)
(***************************************************************************)
MinutesPerDay == 24 * 60

Instant(day, minute) == [valid |-> TRUE, day |-> day, minute |-> minute]
InvalidDate == [valid |-> FALSE, day |-> 0, minute |-> 0]

\* 1970-01-01, 1972-02-29, 2000-02-29, 2025-01-15, 2100-03-01, 9999-12-31, 0000-01-01
AnchorDays == {0, 789, 11016, 20103, 47541, 2932896, -719528}
Days == UNION {(a - DayRadius)..(a + DayRadius) : a \in AnchorDays}
Minutes == {0, 719, MinutesPerDay - 1}
Dates == {Instant(d, m) : d \in Days, m \in Minutes} \cup {InvalidDate}

\* Offsets from UTC of the process-local timezone: UTC-12:00, UTC, UTC+05:30, UTC+14:00.
Zones == {-720, 0, 330, 840}

\* The calendar date of a day number in the proleptic Gregorian calendar, as
\* the UTC getters of a JS Date give it.
CivilFromDays(z) ==
  LET s   == z + 719468
      era == s \div 146097
      doe == s - era * 146097
      yoe == (doe - doe \div 1460 + doe \div 36524 - doe \div 146096) \div 365
      doy == doe - (365 * yoe + yoe \div 4 - yoe \div 100)
      mp  == (5 * doy + 2) \div 153
      d   == doy - (153 * mp + 2) \div 5 + 1
      m   == IF mp < 10 THEN mp + 3 ELSE mp - 9
      y   == yoe + era * 400 + (IF m <= 2 THEN 1 ELSE 0)
  IN  [year |-> y, month |-> m, day |-> d]

\* DateTime.fromJSDate(date, {zone}): the date's calendar fields in the zone;
\* an invalid Date gives an invalid DateTime.  The zone 'utc' has offset 0,
\* the default zone is the process-local one.
fromJSDate(date, zone) ==
  IF ~date.valid
    THEN [isValid |-> FALSE, year |-> 0, month |-> 0, day |-> 0]
    ELSE LET offset == IF zone = "utc" THEN 0 ELSE tz
             local  == date.day + (date.minute + offset) \div MinutesPerDay
             c      == CivilFromDays(local)
         IN  [isValid |-> TRUE, year |-> c.year, month |-> c.month, day |-> c.day]

DigitChars == <<"0", "1", "2", "3", "4", "5", "6", "7", "8", "9">>

\* "" + n for n >= 0
RECURSIVE ToDigits(_)
ToDigits(n) ==
  IF n < 10 THEN <<DigitChars[n + 1]>>
            ELSE ToDigits(n \div 10) \o <<DigitChars[(n % 10) + 1]>>

RECURSIVE Zeros(_)
Zeros(k) == IF k <= 0 THEN <<>> ELSE <<"0">> \o Zeros(k - 1)

\* padStart without the padding: the digits as they are
padStartNone(input, n) ==
  IF input < 0 THEN <<"-">> \o ToDigits(-input) ELSE ToDigits(input)

\* luxon's padStart(input, n): zero-padded to at least n digits, the sign in front.
padStart(input, n) ==
  LET digits == ToDigits(IF input < 0 THEN -input ELSE input)
      padded == Zeros(n - Len(digits)) \o digits
  IN  IF input < 0 THEN <<"-">> \o padded ELSE padded

InvalidDateTime ==
  <<"I", "n", "v", "a", "l", "i", "d", " ", "D", "a", "t", "e", "T", "i", "m", "e">>

\* dt.toFormat("yyyy-MM-dd")
toFormat(dt) ==
  IF ~dt.isValid
    THEN InvalidDateTime
    ELSE padStart(dt.year, 4) \o <<"-">> \o padStart(dt.month, 2)
           \o <<"-">> \o padStart(dt.day, 2)

\* the filter without the zone option: DateTime.fromJSDate(dateObj)
readableDateLocal(date) == toFormat(fromJSDate(date, "local"))

\* dateObj => DateTime.fromJSDate(dateObj, {zone: 'utc'}).toFormat("yyyy-MM-dd")
readableDate(date) == toFormat(fromJSDate(date, "utc"))

\* A template applies the filter to the date it holds.
FormatDate ==
  /\ formatted' = formatted \cup {[tz |-> tz, str |-> readableDate(dateObj)]}
  /\ UNCHANGED <<tz, dateObj>>

\* A template holds another date.
NewDate(d) ==
  /\ d # dateObj
  /\ dateObj' = d
  /\ formatted' = {}
  /\ UNCHANGED tz

\* The build runs again in a process whose local timezone is z.
SetZone(z) ==
  /\ z # tz
  /\ tz' = z
  /\ UNCHANGED <<dateObj, formatted>>

DateFormat == FormatDate /\ UNCHANGED <<aspectVars, collVars, randomVars, shortVars, outputDir, histVars, buildVars>>
DateNew == \E d \in Dates : NewDate(d) /\ UNCHANGED <<aspectVars, collVars, randomVars, shortVars, outputDir, histVars, buildVars>>
DateZone == \E z \in Zones : SetZone(z) /\ UNCHANGED <<aspectVars, collVars, randomVars, shortVars, outputDir, histVars, buildVars>>

(***************************************************************************)
(* The random filter (README.md 117-119).                                  *)
(*                                                                         *)
(* Math.random() is a double r with 0 <= r < 1, here k / DrawScale.  For   *)
(* an array length n below 2^53 the product r * n rounds to a double below *)
(* n, so Math.floor(r * n) is the floor of the exact product.              *)
(***************************************************************************)
Elems == {"x", "y", "z"}
Arrays == UNION {[1..n -> Elems] : n \in 0..MaxLen}
Draws == 0..(DrawScale - 1)

Elem(v) == [t |-> "element", v |-> v]
NoValue == [t |-> "undefined", v |-> ""]
NotCalled == [t |-> "none", v |-> ""]

\* Math.round in the place of Math.floor
randomIndexRound(k, length) == (2 * k * length + DrawScale) \div (2 * DrawScale)

\* Math.floor(Math.random() * array.length)
randomIndex(k, length) == (k * length) \div DrawScale

\* an index check in front of the read: no element at i is an error
ArrayGetChecked(a, i) ==
  IF i + 1 \in 1..Len(a) THEN Elem(a[i + 1]) ELSE [t |-> "error", v |-> "RangeError"]

\* array[i] of a JS array, for the 0-based index i: the element, or undefined
\* when there is none at i.
ArrayGet(a, i) == IF i + 1 \in 1..Len(a) THEN Elem(a[i + 1]) ELSE NoValue

\* array => array[Math.floor(Math.random() * array.length)], for the draw k:
\* the value returned, and the array as the call leaves it.
random(a, k) == [value |-> ArrayGet(a, randomIndex(k, Len(a))), array |-> a]

\* A template applies the filter to the array it holds.
Random(k) ==
  /\ LET r == random(array, k)
     IN  /\ picked' = r.value
         /\ array' = r.array
  /\ handed' = array
  /\ draw' = k

\* A template holds another array.
NewArray(a) ==
  /\ a # array
  /\ array' = a
  /\ handed' = a
  /\ picked' = NotCalled
  /\ draw' = 0

RandomPick == \E k \in Draws : Random(k) /\ UNCHANGED <<aspectVars, collVars, dateVars, shortVars, outputDir, histVars, buildVars>>
RandomNew == \E a \in Arrays : NewArray(a) /\ UNCHANGED <<aspectVars, collVars, dateVars, shortVars, outputDir, histVars, buildVars>>

(***************************************************************************)
(* Rendering a page: the templates apply all four filters and shortcodes   *)
(* to the photographs of the site.  The image files are fixed while a      *)
(* build runs.                                                             *)
(***************************************************************************)
RenderPaths == Paths \cup {"/photos/none.jpg"}

\* The image file at each path: a landscape and a portrait photograph, and a
\* path with no file.
PhotoAt(p) ==
  IF p = "/photos/a.jpg" THEN ImageFile(1500, 1000)
  ELSE IF p = "/photos/b.jpg" THEN ImageFile(1000, 2500)
  ELSE MissingFile

FirstSlot == CHOOSE i \in Slots : \A j \in Slots : i <= j

PageAspectCall ==
  \E p \in RenderPaths :
    NoneInFlight /\ getAspectClass(FirstSlot, p, PhotoAt(p)) /\ UNCHANGED aspectFrame
PageAspectSettle ==
  /\ inv[FirstSlot].pc = "awaiting"
  /\ ImageSettles(FirstSlot, Settled(FirstSlot), {})
  /\ delivered' = [delivered EXCEPT ![inv[FirstSlot].imagePath] =
                     @ \cup {inv'[FirstSlot].calls}]
  /\ UNCHANGED <<collVars, dateVars, randomVars, shortVars, picks, buildVars>>
PageAspectReturn == Return(FirstSlot) /\ UNCHANGED aspectFrame

PageImageCall ==
  \E p \in RenderPaths, sizes \in Sizes :
    /\ NoneInFlight
    /\ imageShortcode(FirstSlot, p, Str("a photo"), sizes, PhotoAt(p))
    /\ UNCHANGED shortFrame
PageImageSettle == ShortcodeSettles(FirstSlot) /\ UNCHANGED shortFrame
PageImageReturn == ShortcodeReturn(FirstSlot) /\ UNCHANGED shortFrame

PageZones == {0, -720}
PageArrays == {<<>>, <<"x", "y">>}
PageDraws == {0, DrawScale - 1}

PageDate == DateFormat
PageZone == \E z \in PageZones : SetZone(z) /\ UNCHANGED <<aspectVars, collVars, randomVars, shortVars, outputDir, histVars, buildVars>>
PageRandom ==
  \E k \in PageDraws :
    /\ Random(k)
    /\ picks' = picks \cup {[draw |-> k, value |-> picked']}
    /\ UNCHANGED <<aspectVars, collVars, dateVars, shortVars, outputDir, delivered, buildVars>>
PageArray ==
  \E a \in PageArrays :
    /\ NewArray(a)
    /\ picks' = {}
    /\ UNCHANGED <<aspectVars, collVars, dateVars, shortVars, outputDir, delivered, buildVars>>

(***************************************************************************)
(* Rendering in parallel: the host starts invocations of getAspectClass    *)
(* and of the image shortcode for different images while others are still  *)
(* awaiting the image library, and the awaited calls settle in any order.  *)
(* A call takes the lowest free slot, so a higher slot started later.      *)
(***************************************************************************)
MaxStarted == NumSlots + 1
Started ==
  Cardinality({j \in Slots : inv[j].pc # "idle"})
    + Cardinality({j \in Slots : sc[j].pc # "idle"})
InUse ==
  {inv[j].imagePath : j \in {k \in Slots : inv[k].pc # "idle"}}
    \cup {sc[j].src : j \in {k \in Slots : sc[k].pc # "idle"}}
LowestIdle(pcs) == CHOOSE i \in Slots : pcs[i] = "idle" /\ \A j \in Slots : j < i => pcs[j] # "idle"

ConcAspectCall ==
  \E p \in RenderPaths \ InUse :
    /\ Started < MaxStarted
    /\ \E j \in Slots : inv[j].pc = "idle"
    /\ getAspectClass(LowestIdle([j \in Slots |-> inv[j].pc]), p, PhotoAt(p))
    /\ UNCHANGED aspectFrame
ConcAspectSettle ==
  \E i \in Slots :
    /\ inv[i].pc = "awaiting"
    /\ ImageSettles(i, Settled(i), {})
    /\ UNCHANGED aspectFrame
ConcImageCall ==
  \E p \in RenderPaths \ InUse, sizes \in Sizes :
    /\ Started < MaxStarted
    /\ \E j \in Slots : sc[j].pc = "idle"
    /\ imageShortcode(LowestIdle([j \in Slots |-> sc[j].pc]), p, Str("a photo"), sizes, PhotoAt(p))
    /\ UNCHANGED shortFrame
ConcImageSettle == ImageSettle

(***************************************************************************)
(* The configuration function and the build (.eleventy.js 22-54).          *)
(*                                                                         *)
(* Eleventy calls the exported function once per process, then copies the  *)
(* passthrough directories into the output tree and renders the templates. *)
(* A file is a path, the sequence of its segments, and a content.          *)
(***************************************************************************)
Modes == {"build", "serve"}
Contents == 1..MaxContent
AssetPaths == {<<"src", "css", "main.css">>, <<"src", "photos", "a.jpg">>,
               <<"src", "js", "app.js">>}

Registration(kind, name, dir) == [kind |-> kind, name |-> name, dir |-> dir]

\* The passthrough directories without src/photos.
PassthroughDirsCss == <<[name |-> "src/css", dir |-> <<"src", "css">>]>>

\* eleventyConfig.addPassthroughCopy("src/css"); addPassthroughCopy("src/photos");
PassthroughDirs ==
  <<[name |-> "src/css", dir |-> <<"src", "css">>],
    [name |-> "src/photos", dir |-> <<"src", "photos">>]>>

\* The registrations the function makes, in order.
Registrations ==
  [k \in 1..Len(PassthroughDirs) |->
     Registration("passthrough", PassthroughDirs[k].name, PassthroughDirs[k].dir)]
  \o <<Registration("filter", "readableDate", <<>>),
       Registration("asyncShortcode", "image", <<>>),
       Registration("collection", "posts", <<>>),
       Registration("collection", "photos", <<>>)>>

\* The object the function returns.
ReturnedConfig ==
  [dir |-> [input |-> <<"src">>, output |-> <<"_site">>,
            includes |-> <<"_includes">>, data |-> <<"_data">>],
   markdownTemplateEngine |-> "njk", htmlTemplateEngine |-> "njk"]

\* module.exports = function(eleventyConfig) { ... }: the build mode is not
\* an input of the function.
Configure ==
  /\ phase = "start"
  /\ registry' = registry \o Registrations
  /\ returned' = <<ReturnedConfig>>
  /\ phase' = "configured"
  /\ UNCHANGED <<mode, assets, site>>

IsPrefix(d, p) == Len(d) <= Len(p) /\ SubSeq(p, 1, Len(d)) = d

\* Where passthrough copy puts the file at p: the input directory is replaced
\* by the output directory.
OutputPath(p) ==
  LET dir == returned[1].dir
  IN  IF IsPrefix(dir.input, p)
        THEN dir.output \o SubSeq(p, Len(dir.input) + 1, Len(p))
        ELSE dir.output \o p

\* The files the registered passthrough directories hold.
Copied ==
  {f \in assets :
     \E k \in 1..Len(registry) :
       registry[k].kind = "passthrough" /\ IsPrefix(registry[k].dir, f.path)}

\* Passthrough copy: every such file is copied to its place in the output
\* tree, over the file that may be there.
PassthroughCopy ==
  /\ phase = "configured"
  /\ LET new == {[path |-> OutputPath(f.path), content |-> f.content] : f \in Copied}
     IN  site' = {g \in site : \A n \in new : n.path # g.path} \cup new
  /\ phase' = "copied"
  /\ UNCHANGED <<mode, registry, returned, assets>>

\* The command line chooses the mode before the process configures itself.
SetMode(m) ==
  /\ phase = "start"
  /\ m # mode
  /\ mode' = m
  /\ UNCHANGED <<phase, registry, returned, assets, site>>

\* The author writes a file of the source tree: before the build, or while
\* the site is served, where the change makes the build copy and render again.
WriteAsset(p, c) ==
  /\ phase = "start" \/ mode = "serve"
  /\ [path |-> p, content |-> c] \notin assets
  /\ assets' = {f \in assets : f.path # p} \cup {[path |-> p, content |-> c]}
  /\ phase' = IF phase = "copied" THEN "configured" ELSE phase
  /\ UNCHANGED <<mode, registry, returned, site>>

buildFrame == <<aspectVars, collVars, dateVars, randomVars, shortVars, outputDir, histVars>>

BuildMode == \E m \in Modes : SetMode(m) /\ UNCHANGED buildFrame
BuildWrite == \E p \in AssetPaths, c \in Contents : WriteAsset(p, c) /\ UNCHANGED buildFrame
BuildConfigure == Configure /\ UNCHANGED buildFrame
BuildCopy == PassthroughCopy /\ UNCHANGED buildFrame
\* The templates are rendered once the passthrough files are copied.
BuildImageCall == phase = "copied" /\ PageImageCall
BuildImageSettle == PageImageSettle
BuildImageReturn == PageImageReturn

(***************************************************************************)
(* The specifications: all start from the same state; each follows one     *)
(* component.                                                              *)
(***************************************************************************)
Init ==
  /\ inv = [i \in Slots |-> Idle]
  /\ store = <<>>
  /\ listing = NotBuilt /\ collections = NotBuilt
  /\ prevBuild = NotBuilt /\ builds = NoBuilds
  /\ tz = 0 /\ dateObj = Instant(0, 0) /\ formatted = {}
  /\ array = <<>> /\ handed = <<>> /\ draw = 0 /\ picked = NotCalled
  /\ sc = [i \in Slots |-> ScIdle]
  /\ outputDir = {}
  /\ delivered = [p \in RenderPaths |-> {}]
  /\ picks = {}
  /\ phase = "start" /\ mode = "build"
  /\ registry = <<>> /\ returned = <<>>
  /\ assets = {} /\ site = {}

NextAspect == AspectCall \/ AspectSettle \/ AspectReturn
NextColl   == CollBuild \/ CollAdd \/ CollDelete
NextDate   == DateFormat \/ DateNew \/ DateZone
NextRandom == RandomPick \/ RandomNew
NextSource == SourceCall \/ SourceSettle \/ AspectReturn
NextImage  == ImageCall \/ ImageSettle \/ ImageReturn
NextPage ==
  \/ PageAspectCall \/ PageAspectSettle \/ PageAspectReturn
  \/ PageImageCall \/ PageImageSettle \/ PageImageReturn
  \/ PageDate \/ PageZone \/ PageRandom \/ PageArray
NextConc == ConcAspectCall \/ ConcAspectSettle \/ ConcImageCall \/ ConcImageSettle
NextBuild ==
  \/ BuildMode \/ BuildWrite \/ BuildConfigure \/ BuildCopy
  \/ BuildImageCall \/ BuildImageSettle \/ BuildImageReturn
Next == NextAspect \/ NextColl \/ NextDate \/ NextRandom

SpecAspect == Init /\ [][NextAspect]_vars
SpecColl   == Init /\ [][NextColl]_vars
SpecDate   == Init /\ [][NextDate]_vars
SpecRandom == Init /\ [][NextRandom]_vars
SpecSource == Init /\ [][NextSource]_vars
SpecImage  == Init /\ [][NextImage]_vars
SpecPage   == Init /\ [][NextPage]_vars
SpecConc   == Init /\ [][NextConc]_vars
SpecBuild  == Init /\ [][NextBuild]_vars
Spec == Init /\ [][Next]_vars

(***************************************************************************)
(* The aspect classifier: C1, C2, C3.                                      *)
(***************************************************************************)
Done(i) == inv[i].pc = "done"

\* The invocation read a width and a height that are both numbers.
HasDims(i) ==
  /\ Done(i)
  /\ TryReachesCallback(inv[i].lib)
  /\ inv[i].lib.jpeg[1].width.t = "number"
  /\ inv[i].lib.jpeg[1].height.t = "number"

WidthOf(i)  == inv[i].lib.jpeg[1].width.n
HeightOf(i) == inv[i].lib.jpeg[1].height.n

\* The threshold table of the specification for the ratio w / h, h > 0:
\* w/h < 0.7 iff 10 w < 7 h, and so on.
TableLabel(w, h) ==
  CASE 10 * w < 7 * h                      -> "portrait"
    [] 7 * h <= 10 * w /\ 10 * w < 13 * h  -> "square"
    [] 13 * h <= 10 * w /\ 10 * w < 18 * h -> "landscape"
    [] 18 * h <= 10 * w                    -> "panorama"

ClassOf(label) ==
  CASE label = "portrait"  -> "aspect-portrait"
    [] label = "square"    -> "aspect-square"
    [] label = "landscape" -> "aspect-landscape"
    [] label = "panorama"  -> "aspect-panorama"

\* C1: for every image with positive width w and height h, getAspectClass hands
\* its callback the class of the label the threshold table gives for w / h
\* (portrait below 0.7, square from 0.7 to below 1.3, landscape from 1.3 to
\* below 1.8, panorama from 1.8), with a null error; the boundary ratios 0.7,
\* 1.3 and 1.8 fall in the upper bucket; and when the callback does not throw
\* that is the only call.
C1_TableLabel ==
  \A i \in Slots :
    HasDims(i) =>
      LET w == WidthOf(i)
          h == HeightOf(i)
      IN  /\ Len(inv[i].calls) >= 1
          /\ inv[i].calls[1] = CallbackCall("null", ClassOf(TableLabel(w, h)))
          /\ (10 * w = 7 * h => inv[i].calls[1].val = "aspect-square")
          /\ (10 * w = 13 * h => inv[i].calls[1].val = "aspect-landscape")
          /\ (10 * w = 18 * h => inv[i].calls[1].val = "aspect-panorama")
          /\ (1 \notin inv[i].throwsOn => Len(inv[i].calls) = 1)

\* An image of ratio exactly 0.7 (7 x 10) has been classified as square.
C1_Witness ==
  \E i \in Slots :
    /\ HasDims(i)
    /\ WidthOf(i) = 7 /\ HeightOf(i) = 10
    /\ inv[i].calls[1].val = "aspect-square"

BranchConds(r) ==
  <<IsPortraitCond(r), IsSquareCond(r), IsLandscapeCond(r), IsPanoramaCond(r)>>

CssClasses == {"aspect-portrait", "aspect-square", "aspect-landscape", "aspect-panorama"}

\* C2: for every positive ratio exactly one of the four branch conditions of
\* the classifier is true, and the class delivered is one of the four classes.
C2_Partition ==
  \A i \in Slots :
    HasDims(i) =>
      LET r == ratio(inv[i].lib.jpeg[1])
      IN  /\ Cardinality({b \in 1..4 : BranchConds(r)[b]}) = 1
          /\ \A k \in 1..Len(inv[i].calls) : inv[i].calls[k].val \in CssClasses

\* An image of ratio exactly 1.3 (13 x 10) has been classified: only the
\* landscape branch holds for it.
C2_Witness ==
  \E i \in Slots :
    /\ HasDims(i)
    /\ WidthOf(i) = 13 /\ HeightOf(i) = 10
    /\ BranchConds(ratio(inv[i].lib.jpeg[1])) = <<FALSE, FALSE, TRUE, FALSE>>

\* C3: when the image-library call rejects, getAspectClass calls its callback
\* with a null error and the default class aspect-landscape and with nothing
\* else; the library's error is never handed to the callback and never ends
\* the function's promise, which is fulfilled unless the callback itself throws.
C3_FailSoft ==
  \A i \in Slots :
    (Done(i) /\ inv[i].lib.settled = "rejected") =>
      /\ inv[i].calls = <<CallbackCall("null", "aspect-landscape")>>
      /\ inv[i].error # "ImageError"
      /\ (inv[i].throwsOn = {} => inv[i].promise = "fulfilled")

\* The library call of an invocation was rejected and the invocation has ended.
C3_Witness ==
  \E i \in Slots :
    /\ Done(i) /\ inv[i].lib.settled = "rejected"
    /\ inv[i].throwsOn = {}
    /\ inv[i].calls = <<CallbackCall("null", "aspect-landscape")>>

(***************************************************************************)
(* The collection builders: C4, C5, C6, C7.                                *)
(***************************************************************************)
Built(c) == builds[c] > 0

\* The enumeration the builder of c starts from: the files of the store that
\* lie directly in the collection's directory and end in .md, in store order.
DirOf(c) == IF c = "posts" THEN "src/posts" ELSE "src/photos"
InCollectionDir(c, f) == f.dir = DirOf(c) /\ f.ext = "md"
MatchingPositions(c) == {k \in 1..Len(store) : InCollectionDir(c, store[k])}

\* The position in the store of the n-th matching file.
NthMatching(c, n) ==
  CHOOSE k \in MatchingPositions(c) :
    Cardinality({j \in MatchingPositions(c) : j <= k}) = n

\* C4: for an enumeration of N matching files, a built collection has length
\* N and element i of it (counting from 0) is element N-1-i of the
\* enumeration: nothing dropped, duplicated, deduplicated or re-sorted.
C4_ExactReverse ==
  \A c \in Collections :
    Built(c) =>
      LET N == Cardinality(MatchingPositions(c))
      IN  /\ Len(collections[c]) = N
          /\ \A i \in 0..(N - 1) :
               collections[c][i + 1] = store[NthMatching(c, (N - 1 - i) + 1)]

\* A collection was built from three matching files that the enumeration does
\* not list in date order.
C4_Witness ==
  \E c \in Collections :
    /\ Built(c)
    /\ Len(collections[c]) = 3
    /\ collections[c][1].date > collections[c][2].date
    /\ collections[c][3].date > collections[c][2].date

\* C5: the posts collection holds only files matching src/posts/*.md, the
\* photos collection only files matching src/photos/*.md, and no file is in
\* both collections.
C5_Disjoint ==
  /\ \A c \in Collections :
       \A k \in 1..Len(collections[c]) :
         collections[c][k].dir = DirOf(c) /\ collections[c][k].ext = "md"
  /\ \A k \in 1..Len(collections["posts"]) :
       \A j \in 1..Len(collections["photos"]) :
         collections["posts"][k] # collections["photos"][j]

\* Both collections are built and non-empty, from a store that also holds a
\* file neither glob matches.
C5_Witness ==
  /\ Built("posts") /\ Built("photos")
  /\ Len(collections["posts"]) > 0 /\ Len(collections["photos"]) > 0
  /\ \E k \in 1..Len(store) : store[k] \in OtherFiles

EnumeratedByDate(c) ==
  \A j, k \in MatchingPositions(c) : j < k => store[j].date <= store[k].date

\* C7: when the enumeration lists the files in ascending date order, a built
\* collection is in reverse-chronological order: for positions i < j the date
\* of item i is not earlier than the date of item j.
C7_ReverseChronological ==
  \A c \in Collections :
    (Built(c) /\ EnumeratedByDate(c)) =>
      \A i, j \in 1..Len(collections[c]) :
        i < j => collections[c][i].date >= collections[c][j].date

\* A collection was built from an enumeration in ascending date order that
\* holds files of two dates, two of them of the same date.
C7_Witness ==
  \E c \in Collections :
    /\ Built(c) /\ EnumeratedByDate(c)
    /\ Len(collections[c]) = 3
    /\ collections[c][1].date > collections[c][3].date
    /\ collections[c][1].date = collections[c][2].date

(***************************************************************************)
(* The date formatter: C8, C9.                                             *)
(***************************************************************************)
IsDigit(ch) == \E d \in 1..10 : DigitChars[d] = ch
DigitValue(ch) == (CHOOSE d \in 1..10 : DigitChars[d] = ch) - 1

RECURSIVE ParseDigits(_)
ParseDigits(s) ==
  IF Len(s) = 0 THEN 0
  ELSE 10 * ParseDigits(SubSeq(s, 1, Len(s) - 1)) + DigitValue(s[Len(s)])

AllDigits(s) == Len(s) > 0 /\ \A k \in 1..Len(s) : IsDigit(s[k])

\* <year>-<MM>-<dd>, the year of four digits or more, with a sign when negative
YearPart(s) == SubSeq(s, 1, Len(s) - 6)
IsDateString(s) ==
  /\ Len(s) >= 10
  /\ s[Len(s) - 5] = "-" /\ s[Len(s) - 2] = "-"
  /\ AllDigits(SubSeq(s, Len(s) - 4, Len(s) - 3))
  /\ AllDigits(SubSeq(s, Len(s) - 1, Len(s)))
  /\ IF YearPart(s)[1] = "-" THEN AllDigits(Tail(YearPart(s))) ELSE AllDigits(YearPart(s))

ParseDate(s) ==
  [year  |-> IF YearPart(s)[1] = "-" THEN -ParseDigits(Tail(YearPart(s)))
                                     ELSE ParseDigits(YearPart(s)),
   month |-> ParseDigits(SubSeq(s, Len(s) - 4, Len(s) - 3)),
   day   |-> ParseDigits(SubSeq(s, Len(s) - 1, Len(s)))]

\* The Gregorian calendar, counted forward: the day number of a calendar date.
IsLeapYear(y) == y % 4 = 0 /\ (y % 100 # 0 \/ y % 400 = 0)
MonthLength(y, m) ==
  IF m = 2 THEN (IF IsLeapYear(y) THEN 29 ELSE 28)
  ELSE IF m \in {4, 6, 9, 11} THEN 30 ELSE 31
LeapYearsBefore(y) == (y - 1) \div 4 - (y - 1) \div 100 + (y - 1) \div 400
DaysBeforeYear(y) == 365 * (y - 1970) + LeapYearsBefore(y) - LeapYearsBefore(1970)
RECURSIVE DaysBeforeMonth(_, _)
DaysBeforeMonth(y, m) ==
  IF m <= 1 THEN 0 ELSE DaysBeforeMonth(y, m - 1) + MonthLength(y, m - 1)
DayNumber(y, m, d) == DaysBeforeYear(y) + DaysBeforeMonth(y, m) + d - 1

\* s names the calendar date of day number n.
IsDateOfDay(s, n) ==
  /\ IsDateString(s)
  /\ LET p == ParseDate(s)
     IN  /\ p.month \in 1..12
         /\ p.day \in 1..MonthLength(p.year, p.month)
         /\ DayNumber(p.year, p.month, p.day) = n

\* C8: readableDate is timezone-normalized: formatting one instant gives the
\* same string whatever the process-local timezone is and however often it is
\* formatted, and the string is the calendar date of the instant in UTC.
C8_ZoneNormalized ==
  /\ \A e1, e2 \in formatted : e1.str = e2.str
  /\ dateObj.valid => \A e \in formatted : IsDateOfDay(e.str, dateObj.day)

\* An instant in the last minute of its UTC day has been formatted under the
\* timezones UTC+14:00 and UTC-12:00, where the local calendar date differs.
C8_Witness ==
  /\ dateObj.valid /\ dateObj.minute = MinutesPerDay - 1
  /\ \E e1, e2 \in formatted : e1.tz = 840 /\ e2.tz = -720

\* yyyy-MM-dd in exactly ten characters
IsFixedWidth(s) ==
  /\ Len(s) = 10
  /\ s[5] = "-" /\ s[8] = "-"
  /\ AllDigits(SubSeq(s, 1, 4))
  /\ AllDigits(SubSeq(s, 6, 7))
  /\ AllDigits(SubSeq(s, 9, 10))
  /\ ParseDigits(SubSeq(s, 6, 7)) \in 1..12
  /\ ParseDigits(SubSeq(s, 9, 10)) \in 1..31

\* C9 as stated: for every date value it is given, readableDate returns a
\* string of exactly 10 characters, a 4-digit year, a 2-digit month in
\* 01..12 and a 2-digit day in 01..31, separated by hyphens.
C9_FixedWidthAlways == \A e \in formatted : IsFixedWidth(e.str)

\* The days of the years 0000 to 9999.
FourDigitYearDays == DayNumber(0, 1, 1)..DayNumber(9999, 12, 31)

\* C9, amended: for every valid date value whose UTC year is in 0..9999,
\* readableDate returns a string of exactly 10 characters, a 4-digit year, a
\* 2-digit month in 01..12 and a 2-digit day in 01..31, separated by hyphens.
C9_FixedWidth ==
  (dateObj.valid /\ dateObj.day \in FourDigitYearDays) =>
    \A e \in formatted : IsFixedWidth(e.str)

\* A date of a one-digit month and a one-digit day in a year below 1000 has
\* been formatted: all three fields are padded.
C9_Witness ==
  /\ dateObj.valid /\ dateObj.day = DayNumber(0, 1, 1)
  /\ \E e \in formatted :
       e.str = <<"0", "0", "0", "0", "-", "0", "1", "-", "0", "1">>

(***************************************************************************)
(* The random filter: C10.                                                 *)
(***************************************************************************)
Called == picked.t # "none"

\* C10: for a non-empty array of length n the index floor(r * n) of a draw r
\* in [0, 1) is in 0..n-1, the filter returns the element at that index, every
\* index in 0..n-1 is the index of some draw, and the call leaves the array as
\* it was.
C10_PicksElement ==
  (Called /\ Len(handed) > 0) =>
    LET n == Len(handed)
        i == randomIndex(draw, n)
    IN  /\ i \in 0..(n - 1)
        /\ picked.t = "element"
        /\ picked.v = handed[i + 1]
        /\ \E j \in 1..n : handed[j] = picked.v
        /\ {randomIndex(k, n) : k \in Draws} = 0..(n - 1)
        /\ array = handed

\* The filter has returned the last element of an array of three elements, an
\* element that is nowhere else in the array.
C10_Witness ==
  /\ Called
  /\ Len(handed) = 3
  /\ handed[1] # handed[3] /\ handed[2] # handed[3]
  /\ picked = Elem(handed[3])


\* C11 as stated: invoking the random filter on an empty array is a runtime
\* fault: the call ends in an error and returns no value to the template.
C11_EmptyFaults == (Called /\ Len(handed) = 0) => picked.t = "error"

\* C11, amended: invoking the random filter on an empty array raises no
\* error: the index is 0 for every draw, the call returns undefined to the
\* template and leaves the array empty.
C11_EmptyUndefined ==
  (Called /\ Len(handed) = 0) =>
    /\ randomIndex(draw, Len(handed)) = 0
    /\ picked = NoValue
    /\ array = <<>>

\* The filter has been applied to an empty array, with the largest draw.
C11_Witness == Called /\ handed = <<>> /\ draw = DrawScale - 1

(***************************************************************************)
(* The callback of getAspectClass: C20.                                    *)
(***************************************************************************)
\* C20: every invocation of getAspectClass calls its callback exactly once, on
\* the success path and on every failure path, also when the callback throws
\* while it is handed the computed class.
C20_CallbackOnce == \A i \in Slots : Done(i) => Len(inv[i].calls) = 1


(***************************************************************************)
(* The image shortcode: C14.                                               *)
(***************************************************************************)
ScDone(i) == sc[i].pc = "done"

\* C14: when the image-library call of the image shortcode fails, the
\* shortcode fails with that same error: it returns no markup and never calls
\* generateHTML.
C14_ErrorPropagates ==
  \A i \in Slots :
    (ScDone(i) /\ sc[i].metadata[1].settled = "rejected") =>
      /\ sc[i].promise = "rejected"
      /\ sc[i].error = sc[i].metadata[1].error
      /\ sc[i].error = "ImageError"
      /\ sc[i].value = <<>>
      /\ sc[i].htmlCalls = <<>>

\* The shortcode was called with an alt text for an image file that is
\* missing, and has ended.
C14_Witness ==
  \E i \in Slots :
    /\ ScDone(i)
    /\ sc[i].file = MissingFile
    /\ sc[i].alt = Str("a photo")
    /\ sc[i].promise = "rejected"

(***************************************************************************)
(* The ratio getAspectClass classifies: C19.                               *)
(***************************************************************************)
\* C19: for a source image of W x H pixels the class getAspectClass delivers
\* is the class of the table's label for W / H, whatever rendition width the
\* filter asks the image library for.
C19_SourceRatio ==
  \A i \in Slots :
    (Done(i) /\ inv[i].file.kind = "image") =>
      /\ Len(inv[i].calls) >= 1
      /\ inv[i].calls[1].val =
           ClassOf(TableLabel(inv[i].file.width, inv[i].file.height))


(***************************************************************************)
(* What an invocation changes: C12.                                        *)
(***************************************************************************)
\* The steps of a page that belong to an invocation of a filter or of the
\* shortcode, and those of the image shortcode among them.
FilterStep ==
  \/ PageDate \/ PageRandom
  \/ PageAspectCall \/ PageAspectSettle \/ PageAspectReturn
  \/ PageImageCall \/ PageImageSettle \/ PageImageReturn
ShortcodeStep == PageImageCall \/ PageImageSettle \/ PageImageReturn

\* The content store and the arguments of the invocations are as before.
StoreKept == store' = store /\ listing' = listing /\ collections' = collections
ArgsKept ==
  /\ array' = array
  /\ dateObj' = dateObj
  /\ \A i \in Slots :
       /\ (inv[i].pc # "idle" /\ inv'[i].pc # "idle")
            => inv'[i].imagePath = inv[i].imagePath
       /\ (sc[i].pc # "idle" /\ sc'[i].pc # "idle")
            => /\ sc'[i].src = sc[i].src
               /\ sc'[i].alt = sc[i].alt
               /\ sc'[i].sizes = sc[i].sizes

\* C12 as stated: every step of an invocation of readableDate, random,
\* getAspectClass or the image shortcode leaves the output directory, the
\* content store and the arguments unchanged.
C12_SideEffectFree ==
  [][FilterStep => (outputDir' = outputDir /\ StoreKept /\ ArgsKept)]_vars

\* C12, amended: every step of an invocation leaves the content store and
\* the arguments unchanged; a step of readableDate, random or getAspectClass
\* leaves the output directory unchanged as well, and a step of the image
\* shortcode removes nothing from the output directory and adds to it only
\* renditions of its own src under _site/img.
C12_OnlyRenditions ==
  [][FilterStep =>
       /\ StoreKept
       /\ ArgsKept
       /\ ~ShortcodeStep => outputDir' = outputDir
       /\ ShortcodeStep =>
            /\ outputDir \subseteq outputDir'
            /\ \A f \in outputDir' \ outputDir :
                 /\ f.dir = <<"_site", "img">>
                 /\ f.of = sc[FirstSlot].src]_vars

\* All four have been invoked: the shortcode has written renditions, and a
\* date, an element and a class have been delivered.
C12_Witness ==
  /\ sc[FirstSlot].pc = "done"
  /\ sc[FirstSlot].promise = "fulfilled"
  /\ outputDir # {}
  /\ formatted # {}
  /\ picks # {}
  /\ \E p \in RenderPaths : delivered[p] # {}


(***************************************************************************)
(* The filters as functions of their input: C15.                           *)
(***************************************************************************)
\* readableDate gave one string for dateObj, and getAspectClass one sequence
\* of callback calls for each image path, however often they were invoked.
DateAndAspectPure ==
  /\ \A e1, e2 \in formatted : e1.str = e2.str
  /\ \A p \in RenderPaths : Cardinality(delivered[p]) <= 1

AloneAspect(p) ==
  getAspectClassBody(AspectMetadata(Image(p, PhotoAt(p), AspectOptions)), {})
AloneImage(src, alt, sizes) ==
  imageShortcodeBody(src, alt, sizes, Image(src, PhotoAt(src), ShortcodeOptions))

\* C13: with several invocations of getAspectClass and of the image
\* shortcode for different images in flight at once, settling in any order,
\* every finished invocation has delivered what it delivers alone for its own
\* image, and the markup of a shortcode names renditions of its own src only.
C13_OwnResult ==
  \A i \in Slots :
    /\ inv[i].pc = "done" =>
         LET a == AloneAspect(inv[i].imagePath)
         IN  /\ inv[i].calls = a.calls
             /\ inv[i].promise = a.promise
             /\ inv[i].error = a.error
    /\ sc[i].pc = "done" =>
         LET a == AloneImage(sc[i].src, sc[i].alt, sc[i].sizes)
         IN  /\ sc[i].value = a.value
             /\ sc[i].promise = a.promise
             /\ sc[i].error = a.error
             /\ \A k \in 1..Len(sc[i].value) :
                  \A f \in 1..Len(sc[i].value[k].sources) :
                    \A s \in SeqToSet(sc[i].value[k].sources[f]) : s.of = sc[i].src

\* Three invocations for three different images: the getAspectClass that
\* started second has finished while the first still awaits the library, and
\* a shortcode has delivered its markup.
C13_Witness ==
  /\ NumSlots >= 2
  /\ inv[1].pc = "awaiting"
  /\ inv[2].pc = "done" /\ inv[2].calls # <<>>
  /\ \E j \in Slots : sc[j].pc = "done" /\ sc[j].promise = "fulfilled"


(***************************************************************************)
(* The configuration function: C16.                                        *)
(***************************************************************************)
Registered(kind, name) ==
  Cardinality({k \in 1..Len(registry) :
                 registry[k].kind = kind /\ registry[k].name = name})

\* C16 as stated: once the configuration function has run, the filters
\* readableDate, random and getAspectClass, the shortcode image and the
\* collections posts and photos are each registered exactly once.
C16_AllRegistered ==
  phase # "start" =>
    /\ Registered("filter", "readableDate") = 1
    /\ Registered("filter", "random") = 1
    /\ Registered("asyncFilter", "getAspectClass") = 1
    /\ Registered("asyncShortcode", "image") = 1
    /\ Registered("collection", "posts") = 1
    /\ Registered("collection", "photos") = 1

(***************************************************************************)
(* Passthrough copy: C17.                                                  *)
(***************************************************************************)
UnderPassthrough(p) ==
  IsPrefix(<<"src", "css">>, p) \/ IsPrefix(<<"src", "photos">>, p)

\* C17: src/css and src/photos are registered for passthrough copy, and a
\* passthrough copy leaves the source files unchanged and puts every file
\* under those directories in the output tree, at its path with _site for
\* src, with the content of the source.
C17_PassthroughIdentical ==
  [][PassthroughCopy =>
       /\ Registered("passthrough", "src/css") = 1
       /\ Registered("passthrough", "src/photos") = 1
       /\ assets' = assets
       /\ \A f \in assets :
            UnderPassthrough(f.path) =>
              /\ [path |-> <<"_site">> \o Tail(f.path), content |-> f.content] \in site'
              /\ \A g \in site' : g.path = <<"_site">> \o Tail(f.path)
                                    => g.content = f.content]_vars

\* A style sheet and a photograph have been copied a second time, after the
\* style sheet was rewritten while the site is served; a script outside the
\* two directories is not in the output tree.
C17_Witness ==
  /\ phase = "copied" /\ mode = "serve"
  /\ [path |-> <<"src", "css", "main.css">>, content |-> 2] \in assets
  /\ [path |-> <<"_site", "css", "main.css">>, content |-> 2] \in site
  /\ \E f \in assets, g \in site :
       f.path = <<"src", "photos", "a.jpg">> /\ g.path = <<"_site", "photos", "a.jpg">>
  /\ \E f \in assets : f.path = <<"src", "js", "app.js">>
  /\ \A g \in site : g.path # <<"_site", "js", "app.js">>

(***************************************************************************)
(* The output directory: C18.                                              *)
(***************************************************************************)
\* C18: in either build mode the configuration function returns input
\* directory src and output directory _site, and every file written, a
\* passthrough copy or a rendition the image library was asked for, lies
\* under _site, the renditions in _site/img.
C18_FixedOutput ==
  /\ phase # "start" =>
       /\ Len(returned) = 1
       /\ returned[1].dir.input = <<"src">>
       /\ returned[1].dir.output = <<"_site">>
  /\ \A g \in site : IsPrefix(<<"_site">>, g.path)
  /\ \A f \in outputDir : f.dir = <<"_site", "img">>

\* The site is served, the passthrough files are copied and the image
\* shortcode has had its renditions written.
C18_Witness ==
  /\ mode = "serve" /\ phase = "copied"
  /\ site # {}
  /\ \E f \in outputDir : f.of = "/photos/a.jpg" /\ f.width = 1200


(***************************************************************************)
(* The image shortcode as parameter passing: C21.                          *)
(***************************************************************************)
\* The one call of the image library an invocation has made: the given src,
\* widths 600, 1200, 1800 and formats webp, jpeg; no call of generateHTML
\* while that call is pending.
OneLibraryCall(i) ==
  /\ Len(sc[i].libCalls) = 1
  /\ sc[i].libCalls[1].src = sc[i].src
  /\ sc[i].libCalls[1].options.widths = <<600, 1200, 1800>>
  /\ sc[i].libCalls[1].options.formats = <<"webp", "jpeg">>
  /\ sc[i].pc = "awaiting" => sc[i].htmlCalls = <<>> /\ sc[i].metadata = <<>>

\* The one call of generateHTML of a finished invocation: the metadata the
\* library call returned, the caller's alt, the caller's sizes or "100vw",
\* loading "lazy", decoding "async"; the shortcode ends as that call ends.
OneHtmlCall(i) ==
  /\ Len(sc[i].htmlCalls) = 1
  /\ LET c == sc[i].htmlCalls[1]
         h == generateHTML(c.metadata, c.attributes)
     IN  /\ c.metadata = sc[i].metadata[1]
         /\ c.attributes.alt = sc[i].alt
         /\ c.attributes.sizes =
              (IF sc[i].sizes.t = "undefined" THEN Str("100vw") ELSE sc[i].sizes)
         /\ c.attributes.loading = "lazy"
         /\ c.attributes.decoding = "async"
         /\ sc[i].value = h.html
         /\ (sc[i].promise = "rejected") = h.threw
         /\ (sc[i].promise = "fulfilled") = ~h.threw

\* C21 as stated: every invocation calls the image library exactly once and
\* then, the call completed, generateHTML exactly once, and returns what
\* generateHTML returns.
C21_AlwaysBothCalls ==
  \A i \in Slots :
    /\ sc[i].pc # "idle" => OneLibraryCall(i)
    /\ ScDone(i) => OneHtmlCall(i)

\* C21, amended: every invocation calls the image library exactly once;
\* when that call succeeds, the invocation then calls generateHTML exactly
\* once with the metadata returned and the caller's alt and sizes, and
\* returns what generateHTML returns; when that call fails, generateHTML is
\* not called at all.
C21_ParameterPassing ==
  \A i \in Slots :
    /\ sc[i].pc # "idle" => OneLibraryCall(i)
    /\ (ScDone(i) /\ sc[i].metadata[1].settled = "resolved") => OneHtmlCall(i)
    /\ (ScDone(i) /\ sc[i].metadata[1].settled = "rejected") => sc[i].htmlCalls = <<>>

\* The shortcode was called without sizes for an image wider than 1200
\* pixels and has returned the markup generateHTML made.
C21_Witness ==
  \E i \in Slots :
    /\ ScDone(i)
    /\ sc[i].sizes = NoArg
    /\ sc[i].file = ImageFile(1500, 1000)
    /\ sc[i].promise = "fulfilled"
    /\ sc[i].value # <<>>
    /\ sc[i].htmlCalls[1].attributes.sizes = Str("100vw")


(***************************************************************************)
(* The classifier as a function of the ratio: C22, C23.                    *)
(***************************************************************************)
\* The class the if / else-if chain gives an image of w x h pixels.
ClassOfImage(w, h) == cssClass(ratio([width |-> Num(w), height |-> Num(h)]))

Sides == 1..MaxDim

\* C22: the class getAspectClass delivers for an image of w x h pixels is the
\* class of every image of the same ratio: of every w2 x h2 with
\* w / h = w2 / h2, among them k*w x k*h for every positive integer k.
C22_RatioAlone ==
  \A i \in Slots :
    HasDims(i) =>
      \A w2, h2 \in Sides :
        WidthOf(i) * h2 = w2 * HeightOf(i)
          => inv[i].calls[1].val = ClassOfImage(w2, h2)

\* An image of 6 x 4 pixels has been classified; 3 x 2, 9 x 6 and 12 x 8 have
\* its ratio.
C22_Witness ==
  \E i \in Slots :
    /\ HasDims(i)
    /\ WidthOf(i) = 6 /\ HeightOf(i) = 4
    /\ inv[i].calls[1].val = "aspect-landscape"
    /\ {3, 9, 12} \subseteq Sides

\* The order portrait < square < landscape < panorama.
Rank(class) ==
  CASE class = "aspect-portrait"  -> 1
    [] class = "aspect-square"    -> 2
    [] class = "aspect-landscape" -> 3
    [] class = "aspect-panorama"  -> 4

\* C23: the class delivered for an image of ratio r is not above the class
\* of any image of a ratio r2 >= r, and not below the class of any image of
\* a ratio r2 <= r.
C23_Monotone ==
  \A i \in Slots :
    HasDims(i) =>
      \A w2, h2 \in Sides :
        LET mine  == Rank(inv[i].calls[1].val)
            other == Rank(ClassOfImage(w2, h2))
        IN  /\ WidthOf(i) * h2 <= w2 * HeightOf(i) => mine <= other
            /\ WidthOf(i) * h2 >= w2 * HeightOf(i) => mine >= other

\* An image of ratio 1 (5 x 5) has been classified as square: there are
\* images of smaller ratio in the portrait class and images of greater ratio
\* in the landscape and panorama classes.
C23_Witness ==
  \E i \in Slots :
    /\ HasDims(i)
    /\ WidthOf(i) = 5 /\ HeightOf(i) = 5
    /\ inv[i].calls[1].val = "aspect-square"
    /\ \E a, b, c \in Sides :
         /\ ClassOfImage(a, 5) = "aspect-portrait"
         /\ ClassOfImage(b, 5) = "aspect-landscape"
         /\ ClassOfImage(c, 5) = "aspect-panorama"


(***************************************************************************)
(* The array a builder reverses: C24.                                      *)
(***************************************************************************)
\* What the enumeration call of the builder of c returns over the store.
Enumeration(c) == getFilteredByGlob(store, GlobOf(c))

\* C24 as stated: a build of posts or photos leaves the array the
\* enumeration call returned as it was, the same items in enumeration order,
\* and returns a separate array, its reverse.
C24_EnumerationKept ==
  [][\A c \in Collections :
       BuildCollection(c) =>
         /\ listing'[c] = Enumeration(c)
         /\ collections'[c] = reverse(Enumeration(c))]_vars

\* C24, amended: a build of posts or photos leaves the content store as it
\* was, reverses the array the enumeration call returned in place and
\* returns that same array: after the build the array holds the enumerated
\* items in reverse enumeration order, and it is the builder's result.
C24_ReversedInPlace ==
  [][\A c \in Collections :
       BuildCollection(c) =>
         /\ store' = store
         /\ listing'[c] = reverse(Enumeration(c))
         /\ collections'[c] = listing'[c]]_vars

\* A collection has been built from two files or more: the array the
\* enumeration call returned is no longer in enumeration order.
C24_Witness ==
  \E c \in Collections :
    /\ Built(c)
    /\ Len(Enumeration(c)) >= 2
    /\ listing[c] # Enumeration(c)
    /\ listing[c] = collections[c]


(***************************************************************************)
(* getAspectClass and the output tree: C25.                                *)
(***************************************************************************)
AspectStep == PageAspectCall \/ PageAspectSettle \/ PageAspectReturn

\* C25: the library call of getAspectClass is a dry run, and no step of an
\* invocation of getAspectClass, from the call to the return, adds a file to
\* the output directory, removes one or changes one.
C25_DryRun ==
  [][AspectStep => (AspectOptions.dryRun /\ outputDir' = outputDir)]_vars

\* The output directory holds renditions the image shortcode has written,
\* both photographs have been classified, and a further invocation of
\* getAspectClass has just ended.
C25_Witness ==
  /\ outputDir # {}
  /\ delivered["/photos/a.jpg"] # {}
  /\ delivered["/photos/b.jpg"] # {}
  /\ inv[FirstSlot].pc = "done"
  /\ inv[FirstSlot].file.kind = "image"


(***************************************************************************)
(* Metadata without a usable jpeg entry, and dimensions that are not       *)
(* numbers: C26, C27.                                                      *)
(***************************************************************************)
\* The library call succeeded, but metadata.jpeg is missing or empty.
NoJpegEntry(lib) ==
  lib.settled = "resolved" /\ (~lib.hasJpeg \/ Len(lib.jpeg) = 0)

\* C26: when the library call succeeds without a jpeg entry, missing list or
\* empty list, getAspectClass calls its callback once, with a null error and
\* aspect-landscape, and raises nothing: its promise is fulfilled unless the
\* callback itself throws.
C26_NoJpegFailSoft ==
  \A i \in Slots :
    (Done(i) /\ NoJpegEntry(inv[i].lib)) =>
      /\ inv[i].calls = <<CallbackCall("null", "aspect-landscape")>>
      /\ inv[i].throwsOn = {} => (inv[i].promise = "fulfilled" /\ inv[i].error = "none")

\* An invocation has ended whose library call succeeded with an empty jpeg
\* list.
C26_Witness ==
  \E i \in Slots :
    /\ Done(i)
    /\ inv[i].lib = Resolved(TRUE, <<>>)
    /\ inv[i].throwsOn = {}
    /\ inv[i].promise = "fulfilled"
    /\ Len(inv[i].calls) = 1

\* No condition of the if / else-if chain holds for the ratio r.
NoBranch(r) == \A b \in 1..4 : ~BranchConds(r)[b]

\* C27: on the success path, when the width or the height is not a number
\* the ratio is NaN, no branch of the chain is taken and the callback gets
\* the initial aspect-landscape with a null error; and whenever no branch is
\* taken, so that the initial value is what is delivered, the width or the
\* height is not a number.
C27_DefaultOnlyForNaN ==
  \A i \in Slots :
    (Done(i) /\ TryReachesCallback(inv[i].lib)) =>
      LET img == inv[i].lib.jpeg[1]
          r   == ratio(img)
          notNumber == img.width.t # "number" \/ img.height.t # "number"
      IN  /\ notNumber =>
               /\ r.nan
               /\ NoBranch(r)
               /\ inv[i].calls[1] = CallbackCall("null", "aspect-landscape")
          /\ NoBranch(r) => notNumber
          /\ ~NoBranch(r) => inv[i].calls[1] = CallbackCall("null", cssClass(r))

\* An entry with a width and no height has been classified: the callback got
\* aspect-landscape, though the image is not a landscape by any width.
C27_Witness ==
  \E i \in Slots :
    /\ Done(i) /\ TryReachesCallback(inv[i].lib)
    /\ inv[i].lib.jpeg[1].width = Num(1)
    /\ inv[i].lib.jpeg[1].height = Undefined
    /\ inv[i].throwsOn = {}
    /\ inv[i].calls = <<CallbackCall("null", "aspect-landscape")>>

====
